---- MODULE Spec2Model ----
(***************************************************************************)
(* A model of the prefix tree of src/trie.py: Trie.Node objects live in a  *)
(* heap of node identities, Trie.add / Trie.discard / MutableSet.remove    *)
(* mutate it, and Trie.View objects hold a cached reference into it.       *)
(* With it, models of the doubly-linked list of                            *)
(* src/py_data_structures/llist.py and the singly-linked list of           *)
(* src/slist.py: their nodes live in heaps of node identities too, and     *)
(* two lists of each kind exist, so that one can extend the other.         *)
(***************************************************************************)
EXTENDS Integers, Sequences, FiniteSets

\* ---- bounds of the model ----
MaxLen == 2
MaxNodes == 4
NumViews == 2
\* The list nodes (sentinels aside) that are ever made, and the longest
\* iterable of values a list constructor is given.
MaxListNodes == 3
MaxInit == 2

\* The alphabet: the names sequences are made of.
Names == {"a", "b"}
Nodes == 1..MaxNodes
ViewIds == 1..NumViews

\* Python's None, as a node reference that refers to no node.
None == 0
\* Trie._root: the node made by Trie.__init__, never replaced.
root == 1

RECURSIVE SeqsOfLen(_)
SeqsOfLen(n) ==
    IF n = 0 THEN {<<>>}
    ELSE {Append(s, x) : s \in SeqsOfLen(n - 1), x \in Names}

\* The sequences of names handed to the operations.
Seqs == UNION {SeqsOfLen(n) : n \in 0..MaxLen}

VARIABLES trie, children, terminal, size, views, last, llist, slist, lcall

vars == <<trie, children, terminal, size, views, last, llist, slist, lcall>>

\* The trie with its views, and the lists.
trieVars == <<trie, children, terminal, size, views, last>>
listVars == <<llist, slist, lcall>>

\* The three attributes of all Node objects, as one value.
Heap == [children |-> children, terminal |-> terminal, size |-> size]

\* ---- Trie.Node ----

\* `name in node.children` / `node.children[name]` on the dict of one node:
\* the dict is a sequence of <<name, child>> pairs in insertion order.
RECURSIVE Lookup(_, _)
Lookup(d, name) ==
    IF d = <<>> THEN None
    ELSE IF Head(d)[1] = name THEN Head(d)[2]
    ELSE Lookup(Tail(d), name)

\* `del node.children[name]`: the other entries keep their order.
RECURSIVE DictDel(_, _)
DictDel(d, name) ==
    IF d = <<>> THEN <<>>
    ELSE IF Head(d)[1] = name THEN Tail(d)
    ELSE <<Head(d)>> \o DictDel(Tail(d), name)

\* Node.__contains__: walk seq through children, then the terminal flag.
RECURSIVE NodeContains(_, _, _)
NodeContains(h, node, seq) ==
    IF seq = <<>> THEN h.terminal[node]
    ELSE LET c == Lookup(h.children[node], Head(seq))
         IN  IF c = None THEN FALSE
             ELSE NodeContains(h, c, Tail(seq))

\* Prepend the names of `pre` to every sequence of the list `ss`.
RECURSIVE Prepend(_, _)
Prepend(pre, ss) ==
    IF ss = <<>> THEN <<>>
    ELSE <<pre \o Head(ss)>> \o Prepend(pre, Tail(ss))

\* Node.__iter__: the list of complete suffixes from `node`, in the order
\* the generator yields them.
RECURSIVE NodeIter(_, _)
RECURSIVE NodeIterChildren(_, _)

\* NodeIter with the empty suffix yielded at leaves only.
NodeIterLeavesOnly(h, node) ==
    (IF h.terminal[node] /\ h.children[node] = <<>>
     THEN <<(<<>>)>> ELSE <<>>)
        \o NodeIterChildren(h, h.children[node])

NodeIter(h, node) ==
    (IF h.terminal[node] THEN <<(<<>>)>> ELSE <<>>)
        \o NodeIterChildren(h, h.children[node])

NodeIterChildren(h, d) ==
    IF d = <<>> THEN <<>>
    ELSE Prepend(<<Head(d)[1]>>, NodeIter(h, Head(d)[2]))
             \o NodeIterChildren(h, Tail(d))

\* ---- the heap of Node objects ----

ChildIds(h, n) == {h.children[n][i][2] : i \in 1..Len(h.children[n])}

\* The nodes reachable from the nodes of `from` through children.
RECURSIVE Reach(_, _)
Reach(h, from) ==
    LET next == from \cup UNION {ChildIds(h, n) : n \in from}
    IN  IF next = from THEN from ELSE Reach(h, next)

\* The nodes some reference still leads to: the trie's root, the nodes the
\* views cache, and everything below them.
Live(h, vs) ==
    Reach(h, ({root} \cup {vs[v].prefix_root : v \in ViewIds}) \ {None})

Min(S) == CHOOSE x \in S : \A y \in S : x <= y

\* Node.__init__: a fresh object with no children, not terminal, size 0.
\* Its identity is one no live object has.
NewNode(h, vs) == Min(Nodes \ Live(h, vs))

InitNode(h, n) ==
    [children |-> [h.children EXCEPT ![n] = <<>>],
     terminal |-> [h.terminal EXCEPT ![n] = FALSE],
     size     |-> [h.size EXCEPT ![n] = 0]]

Range(list) == {list[i] : i \in 1..Len(list)}

\* The nodes below and including n, parents before children, children in
\* the order of the dict.
RECURSIVE Preorder(_, _)
RECURSIVE PreorderChildren(_, _)
Preorder(h, n) == <<n>> \o PreorderChildren(h, h.children[n])

PreorderChildren(h, d) ==
    IF d = <<>> THEN <<>>
    ELSE Preorder(h, Head(d)[2]) \o PreorderChildren(h, Tail(d))

\* acc, then the nodes that only the views v, v+1, ... still lead to.
RECURSIVE PinnedOrder(_, _, _, _)
PinnedOrder(h, vs, v, acc) ==
    IF v > NumViews THEN acc
    ELSE LET r == vs[v].prefix_root
             more == IF r = None THEN <<>>
                     ELSE SelectSeq(Preorder(h, r),
                                    LAMBDA n : n \notin Range(acc))
         IN  PinnedOrder(h, vs, v + 1, acc \o more)

\* The identity of a Node object shows only in `is`, so the objects are
\* numbered in a fixed order: the tree from the root, then what the views
\* alone keep.  An object no reference leads to any more is freed.
Canon(h, vs) ==
    LET order == PinnedOrder(h, vs, 1, Preorder(h, root))
        ren(n) == IF n = None THEN None
                  ELSE CHOOSE i \in 1..Len(order) : order[i] = n
        kids(d) == IF d = <<>> THEN <<>>
                   ELSE [k \in 1..Len(d) |-> <<d[k][1], ren(d[k][2])>>]
        used(i) == i <= Len(order)
    IN  [heap |->
            [children |-> [i \in Nodes |->
                IF used(i) THEN kids(h.children[order[i]]) ELSE <<>>],
             terminal |-> [i \in Nodes |->
                IF used(i) THEN h.terminal[order[i]] ELSE FALSE],
             size |-> [i \in Nodes |->
                IF used(i) THEN h.size[order[i]] ELSE 0]],
         views |-> [v \in ViewIds |->
                       [vs[v] EXCEPT !.prefix_root = ren(@)]]]

\* ---- Trie ----

\* Trie.__contains__
Contains(h, seq) == NodeContains(h, root, seq)

\* Trie.__len__
TrieLen(h) == h.size[root]

\* Trie.__iter__
TrieIter(h) == NodeIter(h, root)

\* AddFrom with the terminal flag flipped instead of set.
RECURSIVE AddFromFlip(_, _, _, _)
AddFromFlip(h, vs, node, seq) ==
    IF seq = <<>>
    THEN [h EXCEPT !.terminal[node] = ~@]
    ELSE LET name == Head(seq)
             c == Lookup(h.children[node], name)
         IN  IF c = None
             THEN LET n == NewNode(h, vs)
                      h1 == InitNode(h, n)
                      h2 == [h1 EXCEPT !.children[node] =
                                           Append(@, <<name, n>>)]
                  IN  AddFromFlip(h2, vs, n, Tail(seq))
             ELSE AddFromFlip(h, vs, c, Tail(seq))

\* AddFrom with the terminal flag set at every node of the path.
RECURSIVE AddFromMarkAll(_, _, _, _)
AddFromMarkAll(h, vs, node, seq) ==
    IF seq = <<>>
    THEN [h EXCEPT !.terminal[node] = TRUE]
    ELSE LET name == Head(seq)
             c == Lookup(h.children[node], name)
             hm == [h EXCEPT !.terminal[node] = TRUE]
         IN  IF c = None
             THEN LET n == NewNode(hm, vs)
                      h1 == InitNode(hm, n)
                      h2 == [h1 EXCEPT !.children[node] =
                                           Append(@, <<name, n>>)]
                  IN  AddFromMarkAll(h2, vs, n, Tail(seq))
             ELSE AddFromMarkAll(hm, vs, c, Tail(seq))

\* The loop of Trie.add from `node` on: make the missing children, descend,
\* and set the terminal flag of the node reached.
RECURSIVE AddFrom(_, _, _, _)
AddFrom(h, vs, node, seq) ==
    IF seq = <<>>
    THEN [h EXCEPT !.terminal[node] = TRUE]
    ELSE LET name == Head(seq)
             c == Lookup(h.children[node], name)
         IN  IF c = None
             THEN LET n == NewNode(h, vs)
                      h1 == InitNode(h, n)
                      h2 == [h1 EXCEPT !.children[node] =
                                           Append(@, <<name, n>>)]
                  IN  AddFrom(h2, vs, n, Tail(seq))
             ELSE AddFrom(h, vs, c, Tail(seq))

\* Trie.add
add(h, vs, seq) == AddFrom(h, vs, root, seq)

\* How many Node objects add(seq) makes.
RECURSIVE Missing(_, _, _)
Missing(h, node, seq) ==
    IF seq = <<>> THEN 0
    ELSE LET c == Lookup(h.children[node], Head(seq))
         IN  IF c = None THEN Len(seq) ELSE Missing(h, c, Tail(seq))

\* DiscardWalk that leaves the loop at a missing name instead of returning.
RECURSIVE DiscardWalkBreak(_, _, _, _)
DiscardWalkBreak(h, node, seq, stack) ==
    IF seq = <<>> THEN [found |-> TRUE, node |-> node, stack |-> stack]
    ELSE LET c == Lookup(h.children[node], Head(seq))
         IN  IF c = None
             THEN [found |-> TRUE, node |-> node, stack |-> stack]
             ELSE DiscardWalkBreak(h, c, Tail(seq),
                                   Append(stack, <<node, Head(seq)>>))

\* The first loop of Trie.discard: the stack of (parent, name) pairs on the
\* way to seq's node, or None when a name is missing.
RECURSIVE DiscardWalk(_, _, _, _)
DiscardWalk(h, node, seq, stack) ==
    IF seq = <<>> THEN [found |-> TRUE, node |-> node, stack |-> stack]
    ELSE LET c == Lookup(h.children[node], Head(seq))
         IN  IF c = None
             THEN [found |-> FALSE, node |-> None, stack |-> stack]
             ELSE DiscardWalk(h, c, Tail(seq),
                              Append(stack, <<node, Head(seq)>>))

\* Prune with an `if` for the `while`: only seq's own node is unlinked.
PruneOnce(h, stack, descendents) ==
    IF stack # <<>> /\ descendents = <<>>
    THEN LET top == stack[Len(stack)]
         IN  [h EXCEPT !.children[top[1]] = DictDel(@, top[2])]
    ELSE h

\* The while loop of Trie.discard: pop (node, child_name), delete that child,
\* and go on while the node popped has no children left.
RECURSIVE Prune(_, _, _)
Prune(h, stack, descendents) ==
    IF stack # <<>> /\ descendents = <<>>
    THEN LET top == stack[Len(stack)]
             node == top[1]
             h1 == [h EXCEPT !.children[node] = DictDel(@, top[2])]
         IN  Prune(h1, SubSeq(stack, 1, Len(stack) - 1), h1.children[node])
    ELSE h

\* discard that returns early at a node that has children.
discard_leaves_only(h, seq) ==
    LET w == DiscardWalk(h, root, seq, <<>>)
    IN  IF ~w.found THEN h
        ELSE IF ~h.terminal[w.node] THEN h
        ELSE IF h.children[w.node] # <<>> THEN h
        ELSE LET h1 == [h EXCEPT !.terminal[w.node] = FALSE]
             IN  Prune(h1, w.stack, h1.children[w.node])

\* Trie.discard
discard(h, seq) ==
    LET w == DiscardWalk(h, root, seq, <<>>)
    IN  IF ~w.found THEN h
        ELSE IF ~h.terminal[w.node] THEN h
        ELSE LET h1 == [h EXCEPT !.terminal[w.node] = FALSE]
             IN  Prune(h1, w.stack, h1.children[w.node])

\* remove with the membership test made after the discard.
remove_discard_first(h, seq) ==
    LET h1 == discard(h, seq)
    IN  IF ~Contains(h1, seq)
        THEN [exc |-> "KeyError", heap |-> h1]
        ELSE [exc |-> "none", heap |-> h1]

\* MutableSet.remove, which Trie inherits: KeyError unless seq is a member,
\* else discard.
remove(h, seq) ==
    IF ~Contains(h, seq)
    THEN [exc |-> "KeyError", heap |-> h]
    ELSE [exc |-> "none", heap |-> discard(h, seq)]

\* MutableSet.pop, which Trie inherits: KeyError when iteration yields
\* nothing, else discard of the first sequence it yields.
pop(h) ==
    IF TrieIter(h) = <<>>
    THEN [exc |-> "KeyError", heap |-> h]
    ELSE [exc |-> "none", heap |-> discard(h, Head(TrieIter(h)))]

\* MutableSet.clear, which Trie inherits: pop until KeyError.  pops counts
\* the calls of pop that removed something.
RECURSIVE clear(_)
clear(h) ==
    LET p == pop(h)
    IN  IF p.exc = "KeyError" THEN [heap |-> h, pops |-> 0]
        ELSE LET c == clear(p.heap)
             IN  [heap |-> c.heap, pops |-> c.pops + 1]

\* ---- Trie.View ----

\* The for loop of View._validate_root: the node `seq` leads to from
\* `node`, or None when a name is missing.
RECURSIVE Walk(_, _, _)
Walk(h, node, seq) ==
    IF seq = <<>> THEN node
    ELSE LET c == Lookup(h.children[node], Head(seq))
         IN  IF c = None THEN None ELSE Walk(h, c, Tail(seq))

\* View._validate_root: the value of _prefix_root it leaves.
validate_root(h, view) ==
    LET r == view.prefix_root
    IN  IF r # None /\ (h.children[r] # <<>> \/ h.terminal[r])
        THEN r
        ELSE Walk(h, root, view.prefix)

\* View._validate_root with every view's cache set to what it finds.
validate_shared(h, vs, v) ==
    [heap |-> h,
     views |-> [w \in ViewIds |->
                   [vs[w] EXCEPT !.prefix_root = validate_root(h, vs[v])]]]

\* The call self._validate_root() of view v: the Node objects are left as
\* they are, and of the views only v's _prefix_root is assigned.
validate(h, vs, v) ==
    [heap |-> h,
     views |-> [vs EXCEPT ![v].prefix_root = validate_root(h, vs[v])]]

\* View.__iter__, after _validate_root left r.
view_iter(h, view, r) ==
    IF r = None THEN <<>>
    ELSE Prepend(view.prefix, NodeIter(h, r))

\* View.__len__, after _validate_root left r.
view_len(h, r) == IF r # None THEN h.size[r] ELSE 0

\* The for loop of View.__contains__ and its last line: next(seq) on an
\* exhausted iterator raises StopIteration.
RECURSIVE MatchPrefix(_, _, _, _)
MatchPrefix(h, r, prefix, seq) ==
    IF prefix = <<>>
    THEN [exc |-> "none", res |-> NodeContains(h, r, seq)]
    ELSE IF seq = <<>>
    THEN [exc |-> "StopIteration", res |-> FALSE]
    ELSE IF Head(prefix) # Head(seq)
    THEN [exc |-> "none", res |-> FALSE]
    ELSE MatchPrefix(h, r, Tail(prefix), Tail(seq))

\* View.__contains__, after _validate_root left r.
view_contains(h, view, r, seq) ==
    IF r = None THEN [exc |-> "none", res |-> FALSE]
    ELSE MatchPrefix(h, r, view.prefix, seq)

\* ---- LLNode and LList (src/py_data_structures/llist.py) ----

\* The two lists of each kind: self and other of extend.
Lists == {1, 2}
\* The values stored at nodes.
Values == {1, 2}
\* The identities of list nodes: a list's sentinel has the list's number,
\* the nodes made by insert come after, in the order they are made.
ListNodes == 1..(Cardinality(Lists) + MaxListNodes)
sentinel(lst) == lst

\* The iterables of values a constructor is given.
RECURSIVE ValueSeqsOfLen(_)
ValueSeqsOfLen(n) ==
    IF n = 0 THEN {<<>>}
    ELSE {Append(q, x) : q \in ValueSeqsOfLen(n - 1), x \in Values}

InitValues == UNION {ValueSeqsOfLen(n) : n \in 0..MaxInit}

\* The attributes of all LLNode objects (value, prev, next), the _len of
\* the lists, the number of nodes made so far, and how the call being made
\* ends.  LList.__init__ without values, for both lists: each sentinel
\* points at itself both ways.
LEmpty ==
    [value |-> [n \in ListNodes |-> None],
     prev |-> [n \in ListNodes |-> IF n \in Lists THEN n ELSE None],
     next |-> [n \in ListNodes |-> IF n \in Lists THEN n ELSE None],
     len |-> [lst \in Lists |-> 0],
     used |-> 0,
     exc |-> "none"]

\* A call begins with no exception raised.
Begin(L) == [L EXCEPT !.exc = "none"]

\* An attribute of None is read or assigned.
AttributeError(L) == [L EXCEPT !.exc = "AttributeError"]

\* n.next = x and n.prev = x: nothing once an exception is raised, and
\* AttributeError when n is None.
SetNext(L, n, x) ==
    IF L.exc # "none" THEN L
    ELSE IF n = None THEN AttributeError(L)
    ELSE [L EXCEPT !.next[n] = x]

SetPrev(L, n, x) ==
    IF L.exc # "none" THEN L
    ELSE IF n = None THEN AttributeError(L)
    ELSE [L EXCEPT !.prev[n] = x]

\* LList.__bool__
llist_bool(L, lst) == L.next[sentinel(lst)] # sentinel(lst)

\* LList.head and LList.tail
llist_head(L, lst) == IF ~llist_bool(L, lst) THEN None ELSE L.next[sentinel(lst)]
llist_tail(L, lst) == IF ~llist_bool(L, lst) THEN None ELSE L.prev[sentinel(lst)]

\* LList.__len__
llist_len(L, lst) == L.len[lst]

\* The identity of the next node made.
NewListNode(L) == Cardinality(Lists) + L.used + 1

\* LList.insert: the new node is LLNode(value, prev, prev.next); then
\* prev.next = node; then prev.next.prev = node, where prev.next is by now
\* the new node itself; then _len += 1.
llist_insert(L, lst, value, prev) ==
    IF prev = None THEN AttributeError(L)
    ELSE LET node == NewListNode(L)
             L1 == [L EXCEPT !.used = @ + 1,
                             !.value[node] = value,
                             !.prev[node] = prev,
                             !.next[node] = L.next[prev]]
             L2 == SetNext(L1, prev, node)
             L3 == SetPrev(L2, L2.next[prev], node)
         IN  [L3 EXCEPT !.len[lst] = @ + 1]

\* LList.push and LList.append
llist_push(L, lst, value) == llist_insert(L, lst, value, sentinel(lst))
llist_append(L, lst, value) == llist_insert(L, lst, value, L.prev[sentinel(lst)])

\* LList.clear
llist_clear(L, lst) ==
    [L EXCEPT !.len[lst] = 0,
              !.next[sentinel(lst)] = sentinel(lst),
              !.prev[sentinel(lst)] = sentinel(lst)]

\* LList.extend, statement by statement; other.head and other.tail are
\* read anew where the source reads them.
llist_extend(L, lst, other) ==
    IF ~llist_bool(L, other) THEN L
    ELSE LET tail == IF llist_bool(L, lst) THEN llist_tail(L, lst) ELSE sentinel(lst)
             L1 == SetNext(L, tail, llist_head(L, other))
             L2 == SetPrev(L1, llist_head(L1, other), tail)
             L3 == SetNext(L2, llist_tail(L2, other), sentinel(lst))
             L4 == SetPrev(L3, sentinel(lst), llist_tail(L3, other))
         IN  IF L4.exc # "none" THEN L4
             ELSE llist_clear([L4 EXCEPT !.len[lst] = @ + llist_len(L4, other)],
                         other)

\* LList.remove: ValueError for the sentinel; the two right-hand sides are
\* read first, then node.prev.next is assigned, then node.next.prev with
\* node.next read again, then node.next = node.prev = None.
llist_remove(L, lst, node) ==
    IF node = sentinel(lst) THEN [L EXCEPT !.exc = "ValueError"]
    ELSE LET n1 == L.next[node]
             p1 == L.prev[node]
             L1 == SetNext(L, p1, n1)
             L2 == SetPrev(L1, L1.next[node], p1)
         IN  IF L2.exc # "none" THEN L2
             ELSE [L2 EXCEPT !.next[node] = None, !.prev[node] = None]

\* LList.__init__ with values: append(val) and then _len += 1, for every
\* val.
RECURSIVE llist_init(_, _, _)
llist_init(L, lst, values) ==
    IF values = <<>> THEN L
    ELSE LET L1 == llist_append(L, lst, Head(values))
         IN  llist_init([L1 EXCEPT !.len[lst] = @ + 1], lst, Tail(values))

\* The generator of LList.__iter__ from `node` on, acc being what it has
\* yielded: it ends ("done") when node.next is the sentinel, raises
\* AttributeError when node is None (after yielding that None), and never
\* ends ("forever") when it comes to a node a second time.
RECURSIVE llist_iter_from(_, _, _, _)
llist_iter_from(L, lst, node, acc) ==
    IF node = None THEN [nodes |-> acc, end |-> "AttributeError"]
    ELSE LET nx == L.next[node]
         IN  IF nx = sentinel(lst) THEN [nodes |-> acc, end |-> "done"]
             ELSE IF nx \in Range(acc)
                  THEN [nodes |-> acc, end |-> "forever"]
                  ELSE llist_iter_from(L, lst, nx, Append(acc, nx))

llist_iter(L, lst) == llist_iter_from(L, lst, sentinel(lst), <<>>)

\* The LLNode objects some reference still leads to: the sentinels of the
\* lists, and the nodes reached from them through next and prev.
RECURSIVE llist_live(_, _)
llist_live(L, from) ==
    LET more == (from \cup {L.next[n] : n \in from}
                      \cup {L.prev[n] : n \in from}) \ {None}
    IN  IF more = from THEN from ELSE llist_live(L, more)

\* The LLNode objects no reference leads to are gone: their identities
\* stand for nothing.
llist_collect(L) ==
    LET live == llist_live(L, Lists)
    IN  [L EXCEPT
            !.value = [n \in ListNodes |-> IF n \in live THEN @[n] ELSE None],
            !.prev = [n \in ListNodes |-> IF n \in live THEN @[n] ELSE None],
            !.next = [n \in ListNodes |-> IF n \in live THEN @[n] ELSE None]]

\* ---- SLNode and SList (src/slist.py) ----

\* The attributes of all SLNode objects (value, next), the _tail and _len
\* of the lists, the number of nodes made so far, and how the call being
\* made ends.  SList.__init__ without values, for both lists: each sentinel
\* points at itself and _tail is None.
SEmpty ==
    [value |-> [n \in ListNodes |-> None],
     next |-> [n \in ListNodes |-> IF n \in Lists THEN n ELSE None],
     tail |-> [lst \in Lists |-> None],
     len |-> [lst \in Lists |-> 0],
     used |-> 0,
     exc |-> "none"]

\* SList.__bool__
slist_bool(S, lst) == S.next[sentinel(lst)] # sentinel(lst)

\* SList.head and SList.tail
slist_head(S, lst) == IF ~slist_bool(S, lst) THEN None ELSE S.next[sentinel(lst)]
slist_tail(S, lst) == IF ~slist_bool(S, lst) THEN None ELSE S.tail[lst]

\* SList.__len__
slist_len(S, lst) == S.len[lst]

\* SList.insert: the new node is SLNode(value, prev.next); _tail becomes
\* it when prev.next is the sentinel; then prev.next = node and _len += 1.
slist_insert(S, lst, value, prev) ==
    IF prev = None THEN AttributeError(S)
    ELSE LET node == NewListNode(S)
             S1 == [S EXCEPT !.used = @ + 1,
                             !.value[node] = value,
                             !.next[node] = S.next[prev]]
             S2 == IF S1.next[prev] = sentinel(lst)
                   THEN [S1 EXCEPT !.tail[lst] = node]
                   ELSE S1
             S3 == SetNext(S2, prev, node)
         IN  [S3 EXCEPT !.len[lst] = @ + 1]

\* SList.push and SList.append
slist_push(S, lst, value) == slist_insert(S, lst, value, sentinel(lst))
slist_append(S, lst, value) ==
    slist_insert(S, lst, value,
                 IF slist_bool(S, lst) THEN slist_tail(S, lst)
                 ELSE sentinel(lst))

\* SList.clear
slist_clear(S, lst) ==
    [S EXCEPT !.len[lst] = 0, !.next[sentinel(lst)] = sentinel(lst)]

\* SList.extend, statement by statement.
slist_extend(S, lst, other) ==
    IF ~slist_bool(S, other) THEN S
    ELSE LET S1 == [S EXCEPT !.len[lst] = @ + slist_len(S, other)]
             tail == IF slist_bool(S1, lst) THEN S1.tail[lst]
                     ELSE sentinel(lst)
             S2 == SetNext(S1, tail, slist_head(S1, other))
             S3 == IF S2.exc # "none" THEN S2
                   ELSE [S2 EXCEPT !.tail[lst] = slist_tail(S2, other)]
             S4 == SetNext(S3, S3.tail[lst], sentinel(lst))
             S5 == SetNext(S4, sentinel(other), sentinel(other))
         IN  IF S5.exc # "none" THEN S5 ELSE slist_clear(S5, other)

\* SList.remove_next without its `if node.next is self.sentinel` line.
slist_remove_next_keep_tail(S, lst, node) ==
    IF node = None THEN AttributeError(S)
    ELSE IF S.next[node] = sentinel(lst) THEN [S EXCEPT !.exc = "ValueError"]
    ELSE LET S1 == [S EXCEPT !.len[lst] = @ - 1]
             removed_node == S1.next[node]
         IN  IF removed_node = None THEN AttributeError(S1)
             ELSE LET S2 == SetNext(S1, node, S1.next[removed_node])
                  IN  SetNext(S2, removed_node, None)

\* SList.remove_next: ValueError when node.next is the sentinel; else
\* _len -= 1, node.next skips the removed node, _tail becomes node when
\* node.next is now the sentinel, and the removed node's next is None.
slist_remove_next(S, lst, node) ==
    IF node = None THEN AttributeError(S)
    ELSE IF S.next[node] = sentinel(lst) THEN [S EXCEPT !.exc = "ValueError"]
    ELSE LET S1 == [S EXCEPT !.len[lst] = @ - 1]
             removed_node == S1.next[node]
         IN  IF removed_node = None THEN AttributeError(S1)
             ELSE LET S2 == SetNext(S1, node, S1.next[removed_node])
                      S3 == IF S2.next[node] = sentinel(lst)
                            THEN [S2 EXCEPT !.tail[lst] = node]
                            ELSE S2
                  IN  SetNext(S3, removed_node, None)

\* SList.__init__ with values: append(value) and then _len += 1, for every
\* value.
RECURSIVE slist_init(_, _, _)
slist_init(S, lst, values) ==
    IF values = <<>> THEN S
    ELSE LET S1 == slist_append(S, lst, Head(values))
         IN  slist_init([S1 EXCEPT !.len[lst] = @ + 1], lst, Tail(values))

\* The generator of SList.__iter__: as that of LList.__iter__.
RECURSIVE slist_iter_from(_, _, _, _)
slist_iter_from(S, lst, node, acc) ==
    IF node = None THEN [nodes |-> acc, end |-> "AttributeError"]
    ELSE LET nx == S.next[node]
         IN  IF nx = sentinel(lst) THEN [nodes |-> acc, end |-> "done"]
             ELSE IF nx \in Range(acc)
                  THEN [nodes |-> acc, end |-> "forever"]
                  ELSE slist_iter_from(S, lst, nx, Append(acc, nx))

slist_iter(S, lst) == slist_iter_from(S, lst, sentinel(lst), <<>>)

\* The SLNode objects some reference still leads to: the sentinels and the
\* _tail of the lists, and the nodes reached from them through next.
RECURSIVE slist_live(_, _)
slist_live(S, from) ==
    LET more == (from \cup {S.next[n] : n \in from}) \ {None}
    IN  IF more = from THEN from ELSE slist_live(S, more)

\* The SLNode objects no reference leads to are gone.
slist_collect(S) ==
    LET live == slist_live(S, (Lists \cup {S.tail[lst] : lst \in Lists})
                                  \ {None})
    IN  [S EXCEPT
            !.value = [n \in ListNodes |-> IF n \in live THEN @[n] ELSE None],
            !.next = [n \in ListNodes |-> IF n \in live THEN @[n] ELSE None]]

\* ---- the state machine ----

NoView == [made |-> FALSE, prefix |-> <<>>, prefix_root |-> None]

\* The record of a call: its name, and the defaults of what it is given
\* (seq, view, values), what was the case when it was made (member: seq was
\* in the trie; afterAdd: the call before was add of the same seq) and how
\* it ended (exc, resB, resN, resL).
Call(op) ==
    [op |-> op, seq |-> <<>>, view |-> None, values |-> <<>>,
     member |-> FALSE, afterAdd |-> FALSE,
     exc |-> "none", resB |-> FALSE, resN |-> 0, resL |-> <<>>]

\* The record of a call on a list: the class and the name of the method,
\* the list it is called on, and the node it makes or is given.
ListCall(cls, op, lst) ==
    [cls |-> cls, op |-> op, list |-> lst, node |-> None]

\* A call on the trie with one sequence.
SeqCall(op, seq) ==
    [Call(op) EXCEPT !.seq = seq,
                     !.member = Contains(Heap, seq),
                     !.afterAdd = (last.op = "add" /\ last.seq = seq)]

\* The collections a constructor call is given: at most two sequences.
Collections ==
    {<<s>> : s \in Seqs} \cup {<<s, t>> : s \in Seqs, t \in Seqs}

\* Trie(): Trie.__init__ takes no argument besides self and makes the root
\* node.  Trie(values): Python raises TypeError, and no Trie is made.
Init ==
    /\ children = [n \in Nodes |-> <<>>]
    /\ terminal = [n \in Nodes |-> FALSE]
    /\ size = [n \in Nodes |-> 0]
    /\ views = [v \in ViewIds |-> NoView]
    /\ llist = LEmpty
    /\ slist = SEmpty
    /\ lcall = ListCall("none", "init", None)
    /\ \/ /\ trie = root
          /\ last = Call("init")
       \/ \E values \in Collections :
          /\ trie = None
          /\ last = [Call("init") EXCEPT !.values = values,
                                         !.exc = "TypeError"]

\* The step to heap h and views vs.
Set(h, vs) ==
    \E c \in {Canon(h, vs)} :
        /\ children' = c.heap.children
        /\ terminal' = c.heap.terminal
        /\ size' = c.heap.size
        /\ views' = c.views

Add(seq) ==
    /\ trie # None
    /\ UNCHANGED listVars
    /\ Missing(Heap, root, seq) <= Cardinality(Nodes \ Live(Heap, views))
    /\ Set(add(Heap, views, seq), views)
    /\ last' = SeqCall("add", seq)
    /\ UNCHANGED trie

Discard(seq) ==
    /\ trie # None
    /\ UNCHANGED listVars
    /\ Set(discard(Heap, seq), views)
    /\ last' = SeqCall("discard", seq)
    /\ UNCHANGED trie

Remove(seq) ==
    /\ trie # None
    /\ UNCHANGED listVars
    /\ LET r == remove(Heap, seq)
       IN  /\ Set(r.heap, views)
           /\ last' = [SeqCall("remove", seq) EXCEPT !.exc = r.exc]
    /\ UNCHANGED trie

\* trie.clear()
Clear ==
    /\ trie # None
    /\ UNCHANGED listVars
    /\ \E c \in {clear(Heap)} :
           /\ Set(c.heap, views)
           /\ last' = [Call("clear") EXCEPT !.resN = c.pops]
    /\ UNCHANGED trie

\* Trie.__getitem__: ValueError for an iterator, else a new View.
GetItem(v, prefix, isIterator) ==
    /\ trie # None
    /\ UNCHANGED listVars
    /\ ~views[v].made
    /\ IF isIterator
       THEN /\ last' = [Call("getitem") EXCEPT !.exc = "ValueError"]
            /\ UNCHANGED views
       ELSE /\ last' = [Call("getitem") EXCEPT !.view = v]
            /\ views' = [views EXCEPT ![v] =
                   [made |-> TRUE, prefix |-> prefix, prefix_root |-> None]]
    /\ UNCHANGED <<trie, children, terminal, size>>

\* list(view)
ViewIter(v) ==
    /\ views[v].made
    /\ UNCHANGED listVars
    /\ \E s \in {validate(Heap, views, v)} :
           /\ Set(s.heap, s.views)
           /\ last' = [Call("view_iter") EXCEPT
                          !.view = v,
                          !.resL = view_iter(s.heap, s.views[v],
                                             s.views[v].prefix_root)]
    /\ UNCHANGED trie

\* len(view)
ViewLen(v) ==
    /\ views[v].made
    /\ UNCHANGED listVars
    /\ \E s \in {validate(Heap, views, v)} :
           /\ Set(s.heap, s.views)
           /\ last' = [Call("view_len") EXCEPT
                          !.view = v,
                          !.resN = view_len(s.heap,
                                            s.views[v].prefix_root)]
    /\ UNCHANGED trie

\* seq in view
ViewContains(v, seq) ==
    /\ views[v].made
    /\ UNCHANGED listVars
    /\ \E s \in {validate(Heap, views, v)} :
       \E c \in {view_contains(s.heap, s.views[v],
                                s.views[v].prefix_root, seq)} :
           /\ Set(s.heap, s.views)
           /\ last' = [Call("view_contains") EXCEPT
                          !.view = v, !.seq = seq,
                          !.exc = c.exc, !.resB = c.res]
    /\ UNCHANGED trie

\* The trie and one View of it: every call of the trie, and of the views
\* only the first is ever made.
Next ==
    \/ \E seq \in Seqs : Add(seq)
    \/ \E seq \in Seqs : Discard(seq)
    \/ \E seq \in Seqs : Remove(seq)
    \/ Clear
    \/ \E prefix \in Seqs, isIterator \in BOOLEAN :
           GetItem(1, prefix, isIterator)
    \/ \E v \in ViewIds : ViewIter(v)
    \/ \E v \in ViewIds : ViewLen(v)
    \/ \E v \in ViewIds, seq \in Seqs : ViewContains(v, seq)

Spec == Init /\ [][Next]_vars

\* The trie alone: no View is ever made.
NextTrie ==
    \/ \E seq \in Seqs : Add(seq)
    \/ \E seq \in Seqs : Discard(seq)
    \/ \E seq \in Seqs : Remove(seq)
    \/ Clear

SpecTrie == Init /\ [][NextTrie]_vars

\* The non-empty sequences that can be a proper prefix of a member.
Prefixes == {q \in Seqs : 0 < Len(q) /\ Len(q) < MaxLen}

\* The trie and NumViews Views of it, made by trie[prefix] for the prefixes
\* of Prefixes, with add and discard changing the trie under them.
NextViews ==
    \/ \E seq \in Seqs : Add(seq)
    \/ \E seq \in Seqs : Discard(seq)
    \/ \E v \in ViewIds, prefix \in Prefixes : GetItem(v, prefix, FALSE)
    \/ \E v \in ViewIds : ViewIter(v)
    \/ \E v \in ViewIds : ViewLen(v)
    \/ \E v \in ViewIds, seq \in Seqs : ViewContains(v, seq)

SpecViews == Init /\ [][NextViews]_vars

\* ---- the lists as state machines ----

\* The nodes iterating list lst of L yields (None, when it is yielded,
\* aside): what a caller can hand to insert and remove.
NodesOf(it) == Range(it.nodes) \ {None}

\* A LList from each constructor call LList(values), the trie and the
\* SLists as made without arguments.
InitLList ==
    /\ trie = root
    /\ children = [n \in Nodes |-> <<>>]
    /\ terminal = [n \in Nodes |-> FALSE]
    /\ size = [n \in Nodes |-> 0]
    /\ views = [v \in ViewIds |-> NoView]
    /\ last = Call("init")
    /\ slist = SEmpty
    /\ \E v1 \in InitValues, v2 \in InitValues :
           /\ Len(v1) + Len(v2) <= MaxListNodes
           /\ llist = llist_init(llist_init(LEmpty, 1, v1), 2, v2)
    /\ lcall = ListCall("LList", "init", None)

\* lst.insert(value, prev), prev a node of lst or its sentinel
LListInsert(lst, value, prev) ==
    /\ llist.used < MaxListNodes
    /\ prev \in NodesOf(llist_iter(llist, lst)) \cup {sentinel(lst)}
    /\ llist' = llist_collect(llist_insert(Begin(llist), lst, value, prev))
    /\ lcall' = [ListCall("LList", "insert", lst) EXCEPT
                    !.node = NewListNode(llist)]
    /\ UNCHANGED <<trieVars, slist>>

\* lst.push(value)
LListPush(lst, value) ==
    /\ llist.used < MaxListNodes
    /\ llist' = llist_collect(llist_push(Begin(llist), lst, value))
    /\ lcall' = [ListCall("LList", "push", lst) EXCEPT
                    !.node = NewListNode(llist)]
    /\ UNCHANGED <<trieVars, slist>>

\* lst.append(value)
LListAppend(lst, value) ==
    /\ llist.used < MaxListNodes
    /\ llist' = llist_collect(llist_append(Begin(llist), lst, value))
    /\ lcall' = [ListCall("LList", "append", lst) EXCEPT
                    !.node = NewListNode(llist)]
    /\ UNCHANGED <<trieVars, slist>>

\* lst.extend(other), other a different list
LListExtend(lst, other) ==
    /\ other # lst
    /\ llist' = llist_collect(llist_extend(Begin(llist), lst, other))
    /\ lcall' = ListCall("LList", "extend", lst)
    /\ UNCHANGED <<trieVars, slist>>

\* lst.clear()
LListClear(lst) ==
    /\ llist' = llist_collect(llist_clear(Begin(llist), lst))
    /\ lcall' = ListCall("LList", "clear", lst)
    /\ UNCHANGED <<trieVars, slist>>

\* lst.remove(node), node a node of lst or its sentinel
LListRemove(lst, node) ==
    /\ node \in NodesOf(llist_iter(llist, lst)) \cup {sentinel(lst)}
    /\ llist' = llist_collect(llist_remove(Begin(llist), lst, node))
    /\ lcall' = [ListCall("LList", "remove", lst) EXCEPT !.node = node]
    /\ UNCHANGED <<trieVars, slist>>

NextLList ==
    \/ \E lst \in Lists, value \in Values, prev \in ListNodes :
           LListInsert(lst, value, prev)
    \/ \E lst \in Lists, value \in Values : LListPush(lst, value)
    \/ \E lst \in Lists, value \in Values : LListAppend(lst, value)
    \/ \E lst \in Lists, other \in Lists : LListExtend(lst, other)
    \/ \E lst \in Lists : LListClear(lst)
    \/ \E lst \in Lists, node \in ListNodes : LListRemove(lst, node)

SpecLList == InitLList /\ [][NextLList]_vars

\* A SList from each constructor call SList(values), the trie and the
\* LLists as made without arguments.
InitSList ==
    /\ trie = root
    /\ children = [n \in Nodes |-> <<>>]
    /\ terminal = [n \in Nodes |-> FALSE]
    /\ size = [n \in Nodes |-> 0]
    /\ views = [v \in ViewIds |-> NoView]
    /\ last = Call("init")
    /\ llist = LEmpty
    /\ \E v1 \in InitValues, v2 \in InitValues :
           /\ Len(v1) + Len(v2) <= MaxListNodes
           /\ slist = slist_init(slist_init(SEmpty, 1, v1), 2, v2)
    /\ lcall = ListCall("SList", "init", None)

\* lst.insert(value, prev), prev a node of lst or its sentinel
SListInsert(lst, value, prev) ==
    /\ slist.used < MaxListNodes
    /\ prev \in NodesOf(slist_iter(slist, lst)) \cup {sentinel(lst)}
    /\ slist' = slist_collect(slist_insert(Begin(slist), lst, value, prev))
    /\ lcall' = [ListCall("SList", "insert", lst) EXCEPT
                    !.node = NewListNode(slist)]
    /\ UNCHANGED <<trieVars, llist>>

\* lst.push(value)
SListPush(lst, value) ==
    /\ slist.used < MaxListNodes
    /\ slist' = slist_collect(slist_push(Begin(slist), lst, value))
    /\ lcall' = [ListCall("SList", "push", lst) EXCEPT
                    !.node = NewListNode(slist)]
    /\ UNCHANGED <<trieVars, llist>>

\* lst.append(value)
SListAppend(lst, value) ==
    /\ slist.used < MaxListNodes
    /\ slist' = slist_collect(slist_append(Begin(slist), lst, value))
    /\ lcall' = [ListCall("SList", "append", lst) EXCEPT
                    !.node = NewListNode(slist)]
    /\ UNCHANGED <<trieVars, llist>>

\* lst.extend(other), other a different list
SListExtend(lst, other) ==
    /\ other # lst
    /\ slist' = slist_collect(slist_extend(Begin(slist), lst, other))
    /\ lcall' = ListCall("SList", "extend", lst)
    /\ UNCHANGED <<trieVars, llist>>

\* lst.clear()
SListClear(lst) ==
    /\ slist' = slist_collect(slist_clear(Begin(slist), lst))
    /\ lcall' = ListCall("SList", "clear", lst)
    /\ UNCHANGED <<trieVars, llist>>

\* lst.remove_next(node), node a node of lst or its sentinel
SListRemoveNext(lst, node) ==
    /\ node \in NodesOf(slist_iter(slist, lst)) \cup {sentinel(lst)}
    /\ slist' = slist_collect(slist_remove_next(Begin(slist), lst, node))
    /\ lcall' = [ListCall("SList", "remove_next", lst) EXCEPT !.node = node]
    /\ UNCHANGED <<trieVars, llist>>

NextSList ==
    \/ \E lst \in Lists, value \in Values, prev \in ListNodes :
           SListInsert(lst, value, prev)
    \/ \E lst \in Lists, value \in Values : SListPush(lst, value)
    \/ \E lst \in Lists, value \in Values : SListAppend(lst, value)
    \/ \E lst \in Lists, other \in Lists : SListExtend(lst, other)
    \/ \E lst \in Lists : SListClear(lst)
    \/ \E lst \in Lists, node \in ListNodes : SListRemoveNext(lst, node)

SpecSList == InitSList /\ [][NextSList]_vars

\* ---- what the claims speak of ----

\* The sequences stored in the trie, by Trie.__contains__.
Members(h) == {s \in Seqs : Contains(h, s)}

\* seq begins with prefix, element-wise.
BeginsWith(seq, prefix) ==
    /\ Len(prefix) <= Len(seq)
    /\ SubSeq(seq, 1, Len(prefix)) = prefix

NoDuplicates(list) ==
    \A i, j \in 1..Len(list) : i # j => list[i] # list[j]

\* ---- the claims ----

\* C1: immediately after add(S), contains(S) is true; immediately after a
\* discard(S), and so after one that follows add(S), contains(S) is false.
C1_AddThenDiscard ==
    /\ last.op = "add" => Contains(Heap, last.seq)
    /\ last.op = "discard" => ~Contains(Heap, last.seq)

\* C1's case: discard(S) right after add(S), with S not the only member.
C1_Witness ==
    /\ last.op = "discard"
    /\ last.afterAdd
    /\ Len(last.seq) > 0
    /\ Members(Heap) # {}

\* C2: discard(S) removes only S: for every sequence T other than S,
\* contains(T) is after discard(S) what it was before.
C2_DiscardRemovesOnlyS ==
    [][last'.op = "discard" =>
          \A t \in Seqs \ {last'.seq} :
              Contains(Heap', t) = Contains(Heap, t)]_vars

\* C3: len(trie) is the number of sequences stored.
C3_LenCountsMembers ==
    trie # None => TrieLen(Heap) = Cardinality(Members(Heap))

\* C4: at every iteration of a view, the sequences it yields are exactly
\* the members of the trie that begin with the view's prefix.
C4_ViewTracksTrie ==
    last.op = "view_iter" =>
        Range(last.resL) =
            {t \in Members(Heap) : BeginsWith(t, views[last.view].prefix)}

\* C5: discard(S) of a sequence that is not a member raises nothing and
\* leaves every node's children, terminal flag and size as they were.
C5_DiscardNonMember ==
    [][(last'.op = "discard" /\ ~Contains(Heap, last'.seq)) =>
          (Heap' = Heap /\ last'.exc = "none")]_vars

\* C5's case: discard(S) where S's path exists and its node is not
\* terminal, in a trie that has members.
C5_Witness ==
    /\ last.op = "discard"
    /\ ~last.member
    /\ Len(last.seq) > 0
    /\ Walk(Heap, root, last.seq) # None

\* C6: remove(S) of a non-member raises KeyError and leaves the tree
\* unchanged; remove(S) of a member raises nothing and does what discard(S)
\* does.
C6_StrictRemove ==
    [][last'.op = "remove" =>
          IF last'.seq \in Members(Heap)
          THEN /\ last'.exc = "none"
               /\ Heap' = Canon(discard(Heap, last'.seq), views).heap
          ELSE last'.exc = "KeyError" /\ Heap' = Heap]_vars

\* C6's case: remove(S) raised KeyError although S's path exists.
C6_Witness ==
    /\ last.op = "remove"
    /\ last.exc = "KeyError"
    /\ Len(last.seq) > 0
    /\ Walk(Heap, root, last.seq) # None

\* C7: `seq in view` raises nothing; it is true exactly when the prefix's
\* path exists, seq begins with the prefix and seq is a member of the trie.
C7_ViewContains ==
    last.op = "view_contains" =>
        /\ last.exc = "none"
        /\ last.resB =
               (/\ Walk(Heap, root, views[last.view].prefix) # None
                /\ BeginsWith(last.seq, views[last.view].prefix)
                /\ Contains(Heap, last.seq))

\* C8: iterating the trie yields exactly the sequences S for which
\* contains(S) is true, each once.
C8_IterIsMembers ==
    trie # None =>
        /\ NoDuplicates(TrieIter(Heap))
        /\ Range(TrieIter(Heap)) = Members(Heap)
        /\ Len(TrieIter(Heap)) = Cardinality(Members(Heap))

\* C8's case: three members, one of them a proper prefix of another.
C8_Witness ==
    /\ Len(TrieIter(Heap)) >= 3
    /\ \E s, t \in Members(Heap) : s # t /\ Len(s) > 0 /\ BeginsWith(t, s)

\* C9: add(S) right after add(S) leaves every node, children mapping,
\* terminal flag and size as the first add(S) left them.
C9_AddIdempotent ==
    [][(last.op = "add" /\ last'.op = "add" /\ last'.seq = last.seq) =>
          Heap' = Heap]_vars

\* C9's case: add(S) was called twice in a row, S with nodes of its own.
C9_Witness ==
    /\ last.op = "add"
    /\ last.afterAdd
    /\ Len(last.seq) = MaxLen

\* C10: constructing a Trie from a collection of sequences succeeds, and
\* contains(S) is then true exactly for the sequences of the collection.
C10_ConstructFromCollection ==
    last.op = "init" =>
        /\ last.exc = "none"
        /\ trie # None
        /\ Members(Heap) = Range(last.values)

\* The calls that are accesses of a View.
ViewAccesses == {"view_iter", "view_len", "view_contains"}

\* C14: every node reachable from the root, other than the root, is
\* terminal or has at least one child: discard leaves no dead node linked.
C14_NoDeadNodes ==
    \A n \in Reach(Heap, {root}) \ {root} :
        terminal[n] \/ children[n] # <<>>

\* C14's case: discard of a member unlinked its node, and other non-root
\* nodes are still linked.
C14_Witness ==
    /\ last.op = "discard"
    /\ last.member
    /\ last.seq # <<>>
    /\ Walk(Heap, root, last.seq) = None
    /\ Cardinality(Reach(Heap, {root})) >= 3

\* C15: after an access of a View its cached node is None when no path from
\* the root spells the prefix, and else the node that path ends at; and a
\* cached node that is no longer linked below the root has no children and
\* is not terminal.
C15_CacheIsPrefixNode ==
    /\ last.op \in ViewAccesses =>
           views[last.view].prefix_root =
               Walk(Heap, root, views[last.view].prefix)
    /\ \A v \in ViewIds :
           LET r == views[v].prefix_root
           IN  (r # None /\ r \notin Reach(Heap, {root})) =>
                   (children[r] = <<>> /\ ~terminal[r])

\* What hangs from node n, told without node identities: its terminal flag,
\* its size and, in the order of its children mapping, each name with what
\* hangs from that child.
RECURSIVE Shape(_, _)
Shape(h, n) ==
    [terminal |-> h.terminal[n], size |-> h.size[n],
     children |-> [i \in 1..Len(h.children[n]) |->
                      <<h.children[n][i][1], Shape(h, h.children[n][i][2])>>]]

\* C16: an access of a View (iteration, length, membership) leaves every
\* node linked below the root as it was, and leaves every other View with
\* the prefix and the cached node it had: a cached node linked below the
\* root is the same node, one no longer linked is recognised by what hangs
\* from it.  Only the accessed View's cache may change.
C16_ViewsReadOnly ==
    [][last'.op \in ViewAccesses =>
          /\ trie' = trie
          /\ Reach(Heap', {root}) = Reach(Heap, {root})
          /\ \A n \in Reach(Heap, {root}) :
                 /\ children'[n] = children[n]
                 /\ terminal'[n] = terminal[n]
                 /\ size'[n] = size[n]
          /\ \A w \in ViewIds \ {last'.view} :
                 LET r == views[w].prefix_root
                     q == views'[w].prefix_root
                 IN  /\ views'[w].made = views[w].made
                     /\ views'[w].prefix = views[w].prefix
                     /\ (r = None) <=> (q = None)
                     /\ r # None =>
                            IF r \in Reach(Heap, {root})
                            THEN q = r
                            ELSE /\ q \notin Reach(Heap', {root})
                                 /\ Shape(Heap', q) = Shape(Heap, r)]_vars

\* C16's case: a View was accessed and found its prefix gone, while another
\* View of the same prefix holds a cached node no longer linked below the
\* root.
C16_Witness ==
    /\ last.op \in ViewAccesses
    /\ views[last.view].prefix_root = None
    /\ \E w \in ViewIds \ {last.view} :
           /\ views[w].made
           /\ views[w].prefix = views[last.view].prefix
           /\ views[w].prefix_root # None
           /\ views[w].prefix_root \notin Reach(Heap, {root})

\* C17: clear() makes at most as many removals as the trie had members and
\* leaves no member, the root without children and not terminal, and every
\* View that exists iterating as empty.
C17_ClearEmpties ==
    [][last'.op = "clear" =>
          /\ last'.resN <= Cardinality(Members(Heap))
          /\ Members(Heap') = {}
          /\ children'[root] = <<>>
          /\ ~terminal'[root]
          /\ \A v \in ViewIds :
                 views'[v].made =>
                     view_iter(Heap', views'[v],
                               validate_root(Heap', views'[v])) = <<>>]_vars

\* C18: add(()) changes nothing but the root's terminal flag, after which
\* () is a member and is yielded once; add, discard and remove of a
\* non-empty sequence leave the membership of () as it was; the root stays
\* the trie's root; and a trie without members yields nothing.
C18_EmptySequenceAtRoot ==
    [][/\ (last'.op = "add" /\ last'.seq = <<>>) =>
              /\ Heap' = [Heap EXCEPT !.terminal[root] = TRUE]
              /\ Contains(Heap', <<>>)
              /\ Cardinality({i \in 1..Len(TrieIter(Heap')) :
                                 TrieIter(Heap')[i] = <<>>}) = 1
       /\ (last'.op \in {"add", "discard", "remove"} /\ last'.seq # <<>>) =>
              (Contains(Heap', <<>>) <=> Contains(Heap, <<>>))
       /\ trie = root => trie' = root
       /\ Members(Heap') = {} => TrieIter(Heap') = <<>>]_vars

\* C18's case: with () a member, discard of a non-empty member unlinked
\* every node below the root.
C18_Witness ==
    /\ last.op = "discard"
    /\ last.member
    /\ Len(last.seq) = MaxLen
    /\ terminal[root]
    /\ children[root] = <<>>

\* C11: for each LList, len(list) is the number of nodes iteration
\* yields, and iteration ends.
C11_LListLen ==
    \A lst \in Lists :
        LET it == llist_iter(llist, lst)
        IN  /\ it.end = "done"
            /\ llist_len(llist, lst) = Len(it.nodes)

\* C12: for each SList, len(list) is the number of nodes iteration yields,
\* and iteration ends.
C12_SListLen ==
    \A lst \in Lists :
        LET it == slist_iter(slist, lst)
        IN  /\ it.end = "done"
            /\ slist_len(slist, lst) = Len(it.nodes)

\* C13: after LList.append(v) the new node is the tail and iteration yields
\* the nodes it yielded before, in their order, and then the new node;
\* after LList.push(v) it yields the new node and then the nodes it yielded
\* before.
C13_AppendAtEnd ==
    [][(lcall'.cls = "LList" /\ lcall'.op \in {"append", "push"}) =>
          LET lst == lcall'.list
              node == lcall'.node
              before == llist_iter(llist, lst).nodes
              after == llist_iter(llist', lst)
          IN  /\ after.end = "done"
              /\ lcall'.op = "append" =>
                     /\ llist_tail(llist', lst) = node
                     /\ after.nodes = Append(before, node)
              /\ lcall'.op = "push" =>
                     after.nodes = <<node>> \o before]_vars

\* C19: for each LList, iteration ends, and every node n it yields, and
\* the sentinel, has n.next.prev = n and n.prev.next = n.
C19_LinkConsistency ==
    \A lst \in Lists :
        LET it == llist_iter(llist, lst)
        IN  /\ it.end = "done"
            /\ \A n \in Range(it.nodes) \cup {sentinel(lst)} :
                   /\ n # None
                   /\ llist.next[n] # None
                   /\ llist.prev[llist.next[n]] = n
                   /\ llist.prev[n] # None
                   /\ llist.next[llist.prev[n]] = n

\* C20: for each SList, tail is None when iteration yields nothing and
\* else the last node it yields, and head is None when it yields nothing
\* and else the first node it yields.
C20_TailTracking ==
    \A lst \in Lists :
        LET it == slist_iter(slist, lst)
        IN  /\ it.end = "done"
            /\ IF it.nodes = <<>>
               THEN /\ slist_tail(slist, lst) = None
                    /\ slist_head(slist, lst) = None
               ELSE /\ slist_tail(slist, lst) = it.nodes[Len(it.nodes)]
                    /\ slist_head(slist, lst) = it.nodes[1]

\* C20's case: remove_next(node) removed the last node of a list, and node,
\* not the sentinel, is the tail now.
C20_Witness ==
    /\ lcall.cls = "SList"
    /\ lcall.op = "remove_next"
    /\ slist.exc = "none"
    /\ lcall.node # sentinel(lcall.list)
    /\ slist_tail(slist, lcall.list) = lcall.node

====
